---- MODULE Spec2Model ----
(***************************************************************************)
(* CD import pipeline of Music-Folder-Utils: import_cd (commands/cd.rs)    *)
(* driving read_cd_from_device, lookup_cd_info, import_cd_track,           *)
(* read_cd_data, write_flac_file and set_audio_metadata (lib/cd.rs).       *)
(* One behaviour is one call of import_cd; each action is one segment of   *)
(* that call between two points where the environment (drive, network,     *)
(* file system, progress receiver) can act.                                *)
(***************************************************************************)
EXTENDS Integers, Sequences, FiniteSets, TLC

\* ---------------------------------------------------------------- bounds
\* Longest table of contents the drive reports.
MaxTocLen == 2

\* ------------------------------------------------------ program constants
\* Duration::from_secs(300) around import_cd_track.
TRACK_TIMEOUT_SECS == 300
\* (last_sector - first_sector) / 75.
SECTORS_PER_SECOND == 75
\* (1..=11) placeholder tracks of cd_info_from_discid_response.
FALLBACK_TRACKS == 11
\* if sectors_read % 100 == 0.
PROGRESS_EVERY == 100

\* Option::None, and an absent or non-string JSON field.
None == "<none>"

\* ---------------------------------------------------------------- strings
\* format!("{:02}", n)
Format02(n) == IF n < 10 THEN "0" \o ToString(n) ELSE ToString(n)

\* format!("Track {:02}", number)
PlaceholderTitle(n) == "Track " \o Format02(n)

ProblemChars == {"/", "\\", ":", "*", "?", "\"", "<", ">", "|"}
ControlChars == {"\t", "\n", "\r"}
WhiteChars == {" ", "\t", "\n", "\r"}

SanitizeChar(c) == IF c \in ProblemChars \cup ControlChars THEN "_" ELSE c

RECURSIVE MapSanitize(_)
MapSanitize(s) ==
    IF Len(s) = 0 THEN ""
    ELSE SanitizeChar(SubSeq(s, 1, 1)) \o MapSanitize(SubSeq(s, 2, Len(s)))

RECURSIVE TrimStart(_)
TrimStart(s) ==
    IF Len(s) > 0 /\ SubSeq(s, 1, 1) \in WhiteChars
    THEN TrimStart(SubSeq(s, 2, Len(s))) ELSE s

RECURSIVE TrimEnd(_)
TrimEnd(s) ==
    IF Len(s) > 0 /\ SubSeq(s, Len(s), Len(s)) \in WhiteChars
    THEN TrimEnd(SubSeq(s, 1, Len(s) - 1)) ELSE s

\* utils::sanitize_filename: map the characters, then trim.
SanitizeFilename(s) == TrimEnd(TrimStart(MapSanitize(s)))

\* Mutant: the number is written without zero padding.
FlacName_NoPadding(number, title) ==
    ToString(number) \o " " \o SanitizeFilename(title) \o ".flac"

\* format!("{:02} {}.flac", number, sanitize_filename(title))
FlacName(number, title) ==
    Format02(number) \o " " \o SanitizeFilename(title) \o ".flac"

\* iter().map(|t| t.duration).sum()
RECURSIVE SumDurations(_)
SumDurations(ts) ==
    IF ts = <<>> THEN 0 ELSE Head(ts).duration + SumDurations(Tail(ts))

\* ------------------------------------------------------------- the drive
\* One entry of the table of contents as the drive reports it.
TocEntries ==
    { [audio |-> TRUE,  first |-> 0, last |-> 1],
      [audio |-> TRUE,  first |-> 2, last |-> 1],
      [audio |-> FALSE, first |-> 0, last |-> 1] }

Tocs == UNION { [1..n -> TocEntries] : n \in 1..MaxTocLen }

\* Mutant: the identifier also depends on the kind of each track.
DiscIdOf_WithTrackKinds(t) ==
    [i \in 1..Len(t) |-> <<t[i].first, t[i].last, t[i].audio>>]

\* DiscId::read(device).id(): the identifier libdiscid derives from the
\* sector boundaries of the table of contents.
DiscIdOf(t) == [i \in 1..Len(t) |-> <<t[i].first, t[i].last>>]

\* The CdTrack pushed for TOC entry i.
TocTrack(i, e) ==
    [ number   |-> i,
      title    |-> PlaceholderTitle(i),
      artist   |-> "Unknown Artist",
      duration |-> (e.last - e.first) \div SECTORS_PER_SECOND,
      filename |-> FlacName(i, PlaceholderTitle(i)) ]

\* The body of `for i in 1..=num_tracks`: audio entries whose range is valid.
RECURSIVE TocTracksFrom(_, _)
TocTracksFrom(t, i) ==
    IF i > Len(t) THEN <<>>
    ELSE (IF t[i].audio /\ ~(t[i].last < t[i].first)
          THEN <<TocTrack(i, t[i])>> ELSE <<>>) \o TocTracksFrom(t, i + 1)

TocTracks(t) == TocTracksFrom(t, 1)

\* The CdInfo before the table of contents has been read.
NoCdInfo ==
    [ disc_id |-> <<>>, title |-> None, artist |-> None, tracks |-> <<>>,
      total_duration |-> 0, release_id |-> None ]

\* --------------------------------------------------------------- messages
Msg(k, n, text) == [kind |-> k, n |-> n, text |-> text]
Info(text) == Msg("Info", 0, text)

\* What the device does during read_cd_from_device.
DeviceOutcomes == {"ok", "discid_fail", "drive_fail"}

\* Mutant: read_cd_from_device without the `tracks.is_empty()` check.
ReadCdFromDevice_NoEmptyCheck(t, dev, conn) ==
    IF ~conn THEN [res |-> "SendError", val |-> NoCdInfo, out |-> <<>>]
    ELSE IF dev = "discid_fail"
    THEN [res |-> "DeviceError", val |-> NoCdInfo,
          out |-> <<Info("Reading TOC")>>]
    ELSE LET pre == <<Info("Reading TOC"), Info("Disc ID"), Info("Debug")>>
             tracks == TocTracks(t)
         IN IF dev = "drive_fail"
            THEN [res |-> "DeviceError", val |-> NoCdInfo, out |-> pre]
            ELSE [res |-> "Ok",
                  val |-> [ disc_id |-> DiscIdOf(t),
                            title |-> "Unknown Album",
                            artist |-> "Unknown Artist",
                            tracks |-> tracks,
                            total_duration |-> SumDurations(tracks),
                            release_id |-> None ],
                  out |-> pre]

\* read_cd_from_device: the result, the CdInfo and the lines it sent.
ReadCdFromDevice(t, dev, conn) ==
    IF ~conn THEN [res |-> "SendError", val |-> NoCdInfo, out |-> <<>>]
    ELSE IF dev = "discid_fail"
    THEN [res |-> "DeviceError", val |-> NoCdInfo,
          out |-> <<Info("Reading TOC")>>]
    ELSE LET pre == <<Info("Reading TOC"), Info("Disc ID"), Info("Debug")>>
             tracks == TocTracks(t)
         IN IF dev = "drive_fail"
            THEN [res |-> "DeviceError", val |-> NoCdInfo, out |-> pre]
            ELSE IF tracks = <<>>
            THEN [res |-> "NoAudioTracks", val |-> NoCdInfo, out |-> pre]
            ELSE [res |-> "Ok",
                  val |-> [ disc_id |-> DiscIdOf(t),
                            title |-> "Unknown Album",
                            artist |-> "Unknown Artist",
                            tracks |-> tracks,
                            total_duration |-> SumDurations(tracks),
                            release_id |-> None ],
                  out |-> pre]

\* ------------------------------------------------------ release metadata
DigitChars == <<"0", "1", "2", "3", "4", "5", "6", "7", "8", "9">>
IsDigit(c) == \E d \in 1..Len(DigitChars) : DigitChars[d] = c
DigitVal(c) == (CHOOSE d \in 1..Len(DigitChars) : DigitChars[d] = c) - 1

RECURSIVE AllDigits(_)
AllDigits(s) ==
    Len(s) = 0 \/ (IsDigit(SubSeq(s, 1, 1)) /\ AllDigits(SubSeq(s, 2, Len(s))))

RECURSIVE DecimalValue(_)
DecimalValue(s) ==
    IF Len(s) = 0 THEN 0
    ELSE DecimalValue(SubSeq(s, 1, Len(s) - 1)) * 10
         + DigitVal(SubSeq(s, Len(s), Len(s)))

\* n.parse::<u32>().ok() of the "number" field (None when it is absent).
ParsesAsU32(s) == s # None /\ Len(s) > 0 /\ AllDigits(s)

\* Entries of a medium's "tracks" array, as the metadata service sends them.
T_Intro == [number |-> "1", title |-> "Intro", has_length |-> TRUE, length |-> 2000]
T_Outro == [number |-> "2", title |-> "Outro", has_length |-> TRUE, length |-> 2999]
T_Coda  == [number |-> "3", title |-> "Coda",  has_length |-> TRUE, length |-> 500]
T_Side  == [number |-> "A1", title |-> "Intro", has_length |-> FALSE, length |-> 0]
T_Bare  == [number |-> None, title |-> None, has_length |-> FALSE, length |-> 0]

RelTrackLists ==
    { <<>>, <<T_Intro>>, <<T_Intro, T_Outro>>, <<T_Side, T_Intro>>,
      <<T_Bare, T_Bare>>, <<T_Intro, T_Outro, T_Coda>> }

Medias ==
    { [shape |-> s, tracks |-> <<>>] :
        s \in {"absent", "not_array", "empty", "no_tracks", "tracks_not_array"} }
    \cup { [shape |-> "tracks", tracks |-> l] : l \in RelTrackLists }

Releases ==
    { [id |-> "R1", artist |-> "Test Artist", title |-> "Test Album", media |-> m] :
        m \in Medias }
    \cup { [id |-> i, artist |-> None, title |-> None,
            media |-> [shape |-> "absent", tracks |-> <<>>]] : i \in {"R1", None} }
    \cup { [id |-> "R1", artist |-> "AC/DC", title |-> "Live: 1992",
            media |-> [shape |-> "tracks", tracks |-> <<T_Intro>>]] }

\* Outcome of the request to the discid endpoint: the request fails, or it
\* returns a JSON object with or without a "releases" field.
DiscidResponses ==
    { [kind |-> k, has_releases |-> FALSE, releases |-> <<>>] : k \in {"err", "ok"} }
    \cup { [kind |-> "ok", has_releases |-> TRUE, releases |-> <<>>] }
    \cup { [kind |-> "ok", has_releases |-> TRUE, releases |-> <<r>>] : r \in Releases }

\* Outcome of Release::search.
SearchEntities ==
    { [id |-> "R2", title |-> "Test Album", has_credit |-> TRUE,
       credits |-> <<"Test Artist">>],
      [id |-> "R2", title |-> "Test Album", has_credit |-> FALSE, credits |-> <<>>] }

SearchResults ==
    { [kind |-> k, entities |-> <<>>] : k \in {"err", "ok"} }
    \cup { [kind |-> "ok", entities |-> <<e>>] : e \in SearchEntities }

\* credits.iter().map(|c| c.name.clone()).collect::<Vec<_>>().join(" & ")
RECURSIVE JoinNames(_)
JoinNames(names) ==
    IF names = <<>> THEN ""
    ELSE IF Len(names) = 1 THEN names[1]
    ELSE names[1] \o " & " \o JoinNames(Tail(names))

\* The CdTrack built from entry i (1-based) of the release's track array.
ReleaseTrack(i, td, artist) ==
    LET number == IF ParsesAsU32(td.number) THEN DecimalValue(td.number) ELSE i
        title  == IF td.title = None THEN PlaceholderTitle(number) ELSE td.title
    IN [ number   |-> number,
         title    |-> title,
         artist   |-> artist,
         duration |-> IF td.has_length THEN td.length \div 1000 ELSE 0,
         filename |-> FlacName(number, title) ]

\* (1..=11).map(...): the tracks made up when the release has no track array.
FallbackTracks(artist) ==
    [ i \in 1..FALLBACK_TRACKS |->
        [ number   |-> i,
          title    |-> PlaceholderTitle(i),
          artist   |-> artist,
          duration |-> 180,
          filename |-> Format02(i) \o " Track " \o Format02(i) \o ".flac" ] ]

\* The track list cd_info_from_discid_response gives the returned CdInfo.
ResponseTracks(rd, artist) ==
    IF rd.media.shape = "tracks"
    THEN [ i \in 1..Len(rd.media.tracks) |-> ReleaseTrack(i, rd.media.tracks[i], artist) ]
    ELSE FallbackTracks(artist)

\* Mutant: the track list is replaced but the total is carried over.
CdInfoFromDiscidResponse_KeepsTotal(rd, info) ==
    LET artist == IF rd.artist = None THEN "Unknown Artist" ELSE rd.artist
        title  == IF rd.title = None THEN "Unknown Album" ELSE rd.title
    IN [ disc_id        |-> info.disc_id,
         title          |-> title,
         artist         |-> artist,
         tracks         |-> ResponseTracks(rd, artist),
         total_duration |-> info.total_duration,
         release_id     |-> IF rd.id = None THEN "" ELSE rd.id ]

\* cd_info_from_discid_response
CdInfoFromDiscidResponse(rd, info) ==
    LET artist == IF rd.artist = None THEN "Unknown Artist" ELSE rd.artist
        title  == IF rd.title = None THEN "Unknown Album" ELSE rd.title
        tracks == ResponseTracks(rd, artist)
    IN [ disc_id        |-> info.disc_id,
         title          |-> title,
         artist         |-> artist,
         tracks         |-> tracks,
         total_duration |-> SumDurations(tracks),
         release_id     |-> IF rd.id = None THEN "" ELSE rd.id ]

\* The arm `Err(e)` of the discid request: the free-text release search.
SearchFallback(info, sr, pre) ==
    LET sent == pre \o <<Info("DiscID lookup failed, trying search")>>
        reqs == <<"discid", "search">>
    IN IF sr.kind = "err"
       THEN [res |-> "Ok", val |-> info, reqs |-> reqs,
             out |-> sent \o <<Info("MusicBrainz lookup failed")>>]
       ELSE IF sr.entities = <<>>
       THEN [res |-> "Ok", val |-> info, reqs |-> reqs,
             out |-> sent \o <<Info("No exact match found")>>]
       ELSE LET release == sr.entities[1]
                credit  == IF release.has_credit THEN JoinNames(release.credits)
                           ELSE "Unknown Artist"
            IN [res |-> "Ok",
                val |-> [ disc_id        |-> info.disc_id,
                          title          |-> release.title,
                          artist         |-> credit,
                          tracks         |-> info.tracks,
                          total_duration |-> info.total_duration,
                          release_id     |-> release.id ],
                reqs |-> reqs,
                out |-> sent \o <<Info("Found release")>>]

\* Mutant: the first release is used even when it carries no "id".
DiscidArm_IgnoresMissingId(info, resp, sr, pre) ==
    LET norelease(text) ==
            [res |-> "Ok", val |-> info, reqs |-> <<"discid">>,
             out |-> pre \o <<Info(text)>>]
    IN IF ~resp.has_releases THEN norelease("Invalid discid response format")
       ELSE IF resp.releases = <<>> THEN norelease("No releases found for this discid")
       ELSE [res |-> "Ok",
             val |-> CdInfoFromDiscidResponse(resp.releases[1], info),
             reqs |-> <<"discid">>,
             out |-> pre \o <<Info("Found release")>>]

\* The arm `Ok(discid_response)` of the discid request: each of its three
\* "no release" branches sends a line and returns cd_info.clone().
DiscidArm(info, resp, sr, pre) ==
    LET norelease(text) ==
            [res |-> "Ok", val |-> info, reqs |-> <<"discid">>,
             out |-> pre \o <<Info(text)>>]
    IN IF ~resp.has_releases THEN norelease("Invalid discid response format")
       ELSE IF resp.releases = <<>> THEN norelease("No releases found for this discid")
       ELSE IF resp.releases[1].id = None
       THEN norelease("No release ID found in discid response")
       ELSE [res |-> "Ok",
             val |-> CdInfoFromDiscidResponse(resp.releases[1], info),
             reqs |-> <<"discid">>,
             out |-> pre \o <<Info("Found release")>>]

\* lookup_cd_info: the result, the CdInfo, the requests made, the lines sent.
LookupCdInfo(info, resp, sr, conn) ==
    LET pre == <<Info("Looking up CD information"), Info("Attempting lookup by DiscID")>>
    IN IF ~conn THEN [res |-> "SendError", val |-> info, reqs |-> <<>>, out |-> <<>>]
       ELSE IF resp.kind = "ok" THEN DiscidArm(info, resp, sr, pre)
       ELSE SearchFallback(info, sr, pre)

\* ------------------------------------------------------------- cover art
\* How a request to a cover-art source ends: image bytes, the request fails,
\* the status is not a success, the body cannot be read, or the JSON lacks a
\* usable "album"/"strAlbumThumb" field (AudioDB only).
CoverOutcomes ==
    {"image", "request_failed", "bad_status", "body_unreadable", "field_missing"}

\* The outcomes of the request to the Cover Art Archive.
ArchiveOutcomes == CoverOutcomes \ {"field_missing"}

\* Ok(Some(bytes)) or Ok(None), as the requests record it.
CoverAnswer(o) == IF o = "image" THEN "image" ELSE "none"

\* Mutant: the secondary source is asked whatever the primary gave.
FetchCoverArt_AsksBoth(info, mb, adb) ==
    IF info.release_id = None THEN [reqs |-> <<>>, art |-> None]
    ELSE [reqs |-> <<"coverartarchive", "audiodb">>,
          art |-> IF mb = "image" \/ adb = "image" THEN "image" ELSE None]

\* import_cd, `if let Some(release_id)`: the sources asked and the bytes kept.
FetchCoverArt(info, mb, adb) ==
    IF info.release_id = None THEN [reqs |-> <<>>, art |-> None]
    ELSE IF mb = "image" THEN [reqs |-> <<"coverartarchive">>, art |-> "image"]
    ELSE [reqs |-> <<"coverartarchive", "audiodb">>,
          art |-> IF adb = "image" THEN "image" ELSE None]

\* Path::new(music_dir).join("Artists").join(artist).join(title), relative
\* to music_dir.
AlbumDir(info) == "Artists/" \o info.artist \o "/" \o info.title

\* What the metadata service answered to the discid request.
DiscidAnswer(resp) ==
    IF resp.kind = "err" THEN "err"
    ELSE IF ~resp.has_releases \/ resp.releases = <<>> THEN "no_release"
    ELSE IF resp.releases[1].id = None THEN "no_release"
    ELSE "release"

\* What it answered to the release search.
SearchAnswer(sr) ==
    IF sr.kind = "err" THEN "err"
    ELSE IF sr.entities = <<>> THEN "empty" ELSE "release"

\* The requests `reqs`, each with the answer it got.
Answered(reqs, answer_of) ==
    [ i \in 1..Len(reqs) |-> [to |-> reqs[i], answer |-> answer_of[reqs[i]]] ]

\* ------------------------------------------------------------------ state
VARIABLES
    pc,            \* where import_cd is
    connected,     \* the receiver of the progress channel is alive
    toc,           \* the table of contents of the disc in the drive
    toc_info,      \* the CdInfo read_cd_from_device returned
    cd_info,       \* the CdInfo lookup_cd_info returned
    requests,      \* the network requests made so far, in order, with their answers
    cover_art,     \* cover_art_data
    album_dir,     \* album_dir, once it is computed
    dirs,          \* directories created
    files,         \* files written
    msgs,          \* lines delivered to the progress channel, in order
    idx,           \* 1-based position of the loop over cd_info.tracks
    sectors_read,  \* read_cd_data's counter
    elapsed,       \* seconds since the current track's timeout was armed
    inner,         \* result of import_cd_track, once it has returned
    expired,       \* the deadline of the track that returned last had passed by then
    result,        \* what import_cd returned
    error,         \* the error it returned
    tag_read,      \* what lofty::read_from_path gave for the track that returned last
    tag_store,     \* the tags saved into files on disk
    running,       \* the running token (false: cancelled)
    cancel_idx,    \* position of the track loop when the token was cleared (0: not in the loop)
    worker,        \* the operation passed to run_tui
    wpos,          \* how many lines of its script the worker has sent
    wstate,        \* the worker thread: not spawned, running, or what it returned
    chan,          \* lines sent and not yet received
    tui_pc,        \* where run_tui is
    received,      \* lines run_tui has received, in order
    current_item_count,  \* run_tui's count of COMPLETED: lines
    total_items,   \* run_tui's total
    filled,        \* filled_chars of the last progress bar computed
    tui_result     \* what run_tui returned

\* The state of import_cd and of the disc, network and file system it works on.
cd_vars == << pc, connected, toc, toc_info, cd_info, requests, cover_art, album_dir,
              dirs, files, msgs, idx, sectors_read, elapsed, inner, expired, result,
              error, tag_read, tag_store >>

token_vars == << running, cancel_idx >>

\* The state of run_tui and of its worker thread.
tui_vars == << worker, wpos, wstate, chan, tui_pc, received, current_item_count,
               total_items, filled, tui_result >>

vars == << pc, connected, toc, toc_info, cd_info, requests, cover_art, album_dir,
           dirs, files, msgs, idx, sectors_read, elapsed, inner, expired, result, error,
           tag_read, tag_store, running, cancel_idx, worker, wpos, wstate, chan,
           tui_pc, received, current_item_count, total_items, filled, tui_result >>

\* The state in which import_cd is called.
StartState ==
    /\ pc = "start"
    /\ connected = TRUE
    /\ toc_info = NoCdInfo
    /\ cd_info = NoCdInfo
    /\ requests = <<>>
    /\ cover_art = None
    /\ album_dir = None
    /\ dirs = {}
    /\ files = {}
    /\ msgs = <<>>
    /\ idx = 0
    /\ sectors_read = 0
    /\ elapsed = 0
    /\ inner = None
    /\ expired = FALSE
    /\ result = "running"
    /\ error = None
    /\ tag_read = None
    /\ tag_store = {}

\* The operation of a run_tui that is not under way.
NoWorker ==
    [ name |-> None, script |-> <<>>, starts |-> {}, result |-> "Ok",
      checks_token |-> FALSE, initial_total |-> 0 ]

\* run_tui has not been called.
TuiIdle ==
    /\ worker = NoWorker
    /\ wpos = 0
    /\ wstate = "not_spawned"
    /\ chan = <<>>
    /\ tui_pc = "idle"
    /\ received = <<>>
    /\ current_item_count = 0
    /\ total_items = 0
    /\ filled = 0
    /\ tui_result = "running"

\* main.rs line 76: AtomicBool::new(true).
TokenSet ==
    /\ running = TRUE
    /\ cancel_idx = 0

Init ==
    /\ toc \in Tocs
    /\ StartState
    /\ TokenSet
    /\ TuiIdle

\* import_cd returns Err(e) through `?`.
Fail(e) ==
    /\ pc' = "done"
    /\ result' = "Err"
    /\ error' = e

Continue(next) ==
    /\ pc' = next
    /\ UNCHANGED <<result, error>>

\* The caller drops the receiver (run_tui leaves its loop on an stdout error).
DropReceiver ==
    /\ pc # "done"
    /\ connected
    /\ connected' = FALSE
    /\ UNCHANGED << token_vars, tui_vars, tag_read, tag_store, pc, toc, toc_info, cd_info, requests, cover_art, album_dir,
                    dirs, files, msgs, idx, sectors_read, elapsed, inner, expired,
                    result, error >>

\* import_cd lines 10-14: the first line, then read_cd_from_device.
ReadToc ==
    /\ pc = "start"
    /\ \E dev \in DeviceOutcomes :
         LET r == ReadCdFromDevice(toc, dev, connected)
         IN IF ~connected
            THEN /\ Fail("SendError")
                 /\ UNCHANGED <<msgs, toc_info>>
            ELSE /\ msgs' = msgs \o <<Info("Reading CD from device")>> \o r.out
                 /\ IF r.res = "Ok"
                    THEN Continue("lookup") /\ toc_info' = r.val
                    ELSE Fail(r.res) /\ UNCHANGED toc_info
    /\ UNCHANGED << token_vars, tui_vars, tag_read, tag_store, connected, toc, cd_info, requests, cover_art, album_dir, dirs,
                    files, idx, sectors_read, elapsed, inner, expired >>

\* import_cd lines 16-20: "Found CD", then lookup_cd_info.
Lookup ==
    /\ pc = "lookup"
    /\ \E resp \in DiscidResponses, sr \in SearchResults :
         LET r == LookupCdInfo(toc_info, resp, sr, connected)
         IN IF r.res = "Ok"
            THEN /\ Continue("cover")
                 /\ cd_info' = r.val
                 /\ requests' = requests \o
                        Answered(r.reqs, [discid |-> DiscidAnswer(resp),
                                          search |-> SearchAnswer(sr)])
                 /\ msgs' = msgs \o <<Info("Found CD")>> \o r.out
            ELSE /\ Fail(r.res)
                 /\ UNCHANGED <<cd_info, requests, msgs>>
    /\ UNCHANGED << token_vars, tui_vars, tag_read, tag_store, connected, toc, toc_info, cover_art, album_dir, dirs, files,
                    idx, sectors_read, elapsed, inner, expired >>

\* import_cd lines 22-46: cover art from the two sources, then one line.
CoverArt ==
    /\ pc = "cover"
    /\ IF ~connected
       THEN /\ Fail("SendError")
            /\ UNCHANGED <<cover_art, requests, msgs>>
       ELSE \E mb \in ArchiveOutcomes, adb \in CoverOutcomes :
              LET r == FetchCoverArt(cd_info, mb, adb)
              IN /\ Continue("mkdir")
                 /\ cover_art' = r.art
                 /\ requests' = requests \o
                        Answered(r.reqs, [coverartarchive |-> CoverAnswer(mb),
                                          audiodb |-> CoverAnswer(adb)])
                 /\ msgs' = msgs \o [i \in 1..Len(r.reqs) |-> Info("Fetching cover art")]
                                 \o <<Info("Cover art")>>
    /\ UNCHANGED << token_vars, tui_vars, tag_read, tag_store, connected, toc, toc_info, cd_info, album_dir, dirs, files, idx,
                    sectors_read, elapsed, inner, expired >>

\* Where the loop over cd_info.tracks goes from position i of n.
LoopAt(i, n) == IF i <= n THEN "track" ELSE "finish"

\* import_cd lines 48-60: create the album directory, announce the total.
CreateAlbumDir ==
    /\ pc = "mkdir"
    /\ album_dir' = AlbumDir(cd_info)
    /\ \E ok \in BOOLEAN :
         IF ~ok
         THEN /\ Fail("IoError")
              /\ UNCHANGED <<dirs, msgs, idx>>
         ELSE /\ dirs' = dirs \cup {AlbumDir(cd_info)}
              /\ IF ~connected
                 THEN /\ Fail("SendError")
                      /\ UNCHANGED <<msgs, idx>>
                 ELSE /\ msgs' = msgs \o << Info("Created directory"),
                                           Msg("TotalTracks", Len(cd_info.tracks), "") >>
                      /\ idx' = 1
                      /\ Continue(LoopAt(1, Len(cd_info.tracks)))
    /\ UNCHANGED << token_vars, tui_vars, tag_read, tag_store, connected, toc, toc_info, cd_info, requests, cover_art, files,
                    sectors_read, elapsed, inner, expired >>

\* ------------------------------------------------------------- one track
Track == cd_info.tracks[idx]

\* The drive knows track numbers 1..tracks() of its table of contents.
OnDisc(number) == number \in 1..Len(toc)

\* album_dir.join(&track.filename)
TrackPath(dir, filename) == dir \o "/" \o filename

\* path.with_extension("jpg") of a name that ends in ".flac"
JpgPath(path) == SubSeq(path, 1, Len(path) - 5) \o ".jpg"

\* Seconds one paranoia_read call can take.
ReadDurations == {0, TRACK_TIMEOUT_SECS}

Min(a, b) == IF a < b THEN a ELSE b

\* import_cd_track returns: its result is kept for the match in import_cd,
\* its locals are dropped.
Return(r) ==
    /\ inner' = r
    /\ pc' = "track_end"
    /\ sectors_read' = 0

\* import_cd line 64 arms the timeout; import_cd_track lines 338-341 send the
\* track's first line; read_cd_data lines 386-401 open the drive, look up the
\* sector range of track.number and seek.
TrackStart ==
    /\ pc = "track"
    /\ elapsed' = 0
    /\ tag_read' = None
    /\ IF ~connected
       THEN /\ Return("SendError")
            /\ UNCHANGED msgs
       ELSE \E drive \in {"ok", "fail"} :
              LET started == Msg("TrackStarted", idx, Track.title)
                  usable  == /\ drive = "ok"
                             /\ OnDisc(Track.number)
                             /\ toc[Track.number].first <= toc[Track.number].last
              IN IF usable
                 THEN /\ msgs' = msgs \o <<started>>
                      /\ pc' = "rip"
                      /\ sectors_read' = 0
                      /\ UNCHANGED inner
                 ELSE /\ msgs' = msgs \o <<started, Msg("TrackError", idx, "read")>>
                      /\ Return("ReadError")
    /\ UNCHANGED << token_vars, tui_vars, tag_store, connected, toc, toc_info, cd_info, requests, cover_art, album_dir,
                    dirs, files, idx, expired, result, error >>

\* (sectors_read * 100) / total_sectors
\* Mutant: the division is done before the multiplication.
Percent_DividesFirst(n, total) == (n \div total) * 100

Percent(n, total) == (n * 100) \div total

\* The sector loop is left at `if sector_ptr.is_null() { break; }` and at
\* the end of first_sector..=last_sector.
LoopEnded(r, n, total) == r = "null" \/ n = total

\* Mutant: a read that stopped before the last sector is a failure.
ReadResult_RejectsPartial(n, total) == IF n < total THEN "ReadError" ELSE "Ok"

\* `if sectors_read == 0 { return Err(...) }`, else Ok(byte_buffer).
\* Mutant: read_cd_data returns Ok with an empty buffer.
ReadResult_AlwaysOk(n, total) == "Ok"

ReadResult(n, total) == IF n = 0 THEN "ReadError" ELSE "Ok"

\* read_cd_data lines 403-432 and import_cd_track lines 344-355: one
\* paranoia_read call; after the last one, the end of read_cd_data.
ReadSector ==
    /\ pc = "rip"
    /\ \E r \in {"null", "data"}, d \in ReadDurations :
         LET e     == toc[Track.number]
             total == e.last - e.first + 1
             n     == IF r = "data" THEN sectors_read + 1 ELSE sectors_read
             prog  == IF r = "data" /\ n % PROGRESS_EVERY = 0 /\ connected
                      THEN <<Msg("SectorProgress", Track.number,
                                 ToString(Percent(n, total)))>>
                      ELSE <<>>
             ended == LoopEnded(r, n, total)
         IN /\ elapsed' = Min(elapsed + d, TRACK_TIMEOUT_SECS)
            /\ IF ~ended
               THEN /\ msgs' = msgs \o prog
                    /\ sectors_read' = n
                    /\ UNCHANGED <<pc, inner>>
               ELSE IF ~connected
               THEN /\ Return("SendError")
                    /\ UNCHANGED msgs
               ELSE IF ReadResult(n, total) = "ReadError"
               THEN /\ msgs' = msgs \o <<Msg("TrackError", idx, "read")>>
                    /\ Return("ReadError")
               ELSE /\ msgs' = msgs \o prog
                                 \o <<Info("Successfully read sectors"), Info("Read bytes")>>
                    /\ pc' = "encode"
                    /\ sectors_read' = n
                    /\ UNCHANGED inner
    /\ UNCHANGED << token_vars, tui_vars, tag_read, tag_store, connected, toc, toc_info, cd_info, requests, cover_art, album_dir,
                    dirs, files, idx, expired, result, error >>

\* What write_flac_file does: it encodes and writes, the encoder rejects
\* the stream, or the file cannot be written.
EncodeOutcomes == {"ok", "encode_fail", "write_fail"}

\* write_flac_file lines 436-482 and import_cd_track lines 358-369.
Encode ==
    /\ pc = "encode"
    /\ \E enc \in EncodeOutcomes, jpg_ok \in BOOLEAN :
         LET path == TrackPath(album_dir, Track.filename)
             art  == IF cover_art # None /\ jpg_ok THEN {JpgPath(path)} ELSE {}
         IN IF enc = "ok"
            THEN /\ files' = files \cup {path} \cup art
                 /\ IF connected
                    THEN /\ msgs' = msgs \o <<Info("Encoded FLAC file")>>
                         /\ pc' = "tag"
                         /\ UNCHANGED <<inner, sectors_read>>
                    ELSE /\ Return("SendError")
                         /\ UNCHANGED msgs
            ELSE /\ UNCHANGED files
                 /\ IF connected
                    THEN /\ msgs' = msgs \o <<Msg("TrackError", idx, "encode")>>
                         /\ Return("EncodeError")
                    ELSE /\ Return("SendError")
                         /\ UNCHANGED msgs
    /\ UNCHANGED << token_vars, tui_vars, tag_read, tag_store, connected, toc, toc_info, cd_info, requests, cover_art, album_dir,
                    dirs, idx, elapsed, expired, result, error >>

\* What lofty::read_from_path gives for the encoded file: a file with a
\* primary tag, a file without one, or an error.
TagReads == {"tagged", "no_tag", "unreadable"}

\* The fields set_audio_metadata inserts into the primary tag.
TagFields(track, album_title, album_artist, release_id) ==
    [ title        |-> track.title,
      artist       |-> track.artist,
      album        |-> album_title,
      album_artist |-> album_artist,
      number       |-> ToString(track.number),
      release_id   |-> release_id ]

\* Mutant: set_audio_metadata returns an error when the tag cannot be set.
SetAudioMetadata_FailsWithoutTag(path, track, info, read) ==
    [ res   |-> IF read = "tagged" THEN "Ok" ELSE "TagError",
      tag   |-> {},
      saved |-> {} ]

\* set_audio_metadata: its result, the tag it holds in memory and what it
\* saves to disk. The fields are inserted into the tag in memory; save_to is
\* commented out, so nothing is saved, and every arm ends in Ok(()).
SetAudioMetadata(path, track, info, read) ==
    LET in_memory == IF read = "tagged"
                     THEN {[ path |-> path,
                             tags |-> TagFields(track, info.title, info.artist,
                                                info.release_id) ]}
                     ELSE {}
    IN [ res |-> "Ok", tag |-> in_memory, saved |-> {} ]

\* import_cd_track lines 372-381: set_audio_metadata(...)?, then Ok(()).
Tag ==
    /\ pc = "tag"
    /\ \E read \in TagReads :
         LET r == SetAudioMetadata(TrackPath(album_dir, Track.filename), Track,
                                   cd_info, read)
         IN /\ tag_read' = read
            /\ tag_store' = tag_store \cup r.saved
            /\ Return(r.res)
    /\ UNCHANGED << token_vars, tui_vars, connected, toc, toc_info, cd_info, requests, cover_art, album_dir,
                    dirs, files, msgs, idx, elapsed, expired, result, error >>

\* tokio::time::timeout(d, fut).await: the wrapped future is polled first and
\* its result is returned when it is ready; Elapsed is returned only when a
\* poll finds it pending after the deadline.
TimeoutResult(ready, fut_result, el) ==
    IF ready THEN fut_result
    ELSE IF el >= TRACK_TIMEOUT_SECS THEN "Elapsed" ELSE "Pending"

\* import_cd_track, read_cd_data, write_flac_file and set_audio_metadata
\* await nothing that can be pending: the future is ready at its first poll.
TrackResult(fut_result, el) == TimeoutResult(TRUE, fut_result, el)

\* The line the match in import_cd lines 76-102 sends for position i.
TerminalMsg(r, i, title) ==
    IF r = "Ok" THEN Msg("TrackCompleted", i, title)
    ELSE IF r = "Elapsed" THEN Msg("TrackError", i, "timeout")
    ELSE Msg("TrackError", i, "import")

\* Mutant: a failed track ends the loop (`break` in the error arms).
AfterTrack_BreakOnFailure(r, i, n) ==
    IF r = "Ok" THEN LoopAt(i + 1, n) ELSE "finish"

\* Mutant: a failed track ends import_cd (`?` on the track's result).
AfterTrack_ReturnOnFailure(r, i, n) ==
    IF r = "Ok" THEN LoopAt(i + 1, n) ELSE "done"

\* Where import_cd goes after the match for position i of n.
AfterTrack(r, i, n) == LoopAt(i + 1, n)

\* import_cd lines 76-102: the match on the timeout's result.
TrackEnd ==
    /\ pc = "track_end"
    /\ LET r == TrackResult(inner, elapsed)
       IN /\ expired' = (elapsed >= TRACK_TIMEOUT_SECS)
          /\ elapsed' = 0
          /\ inner' = None
          /\ IF ~connected
             THEN /\ Fail("SendError")
                  /\ UNCHANGED <<msgs, idx>>
             ELSE /\ msgs' = msgs \o <<TerminalMsg(r, idx, Track.title)>>
                  /\ idx' = idx + 1
                  /\ Continue(AfterTrack(r, idx, Len(cd_info.tracks)))
    /\ UNCHANGED << token_vars, tui_vars, tag_read, tag_store, connected, toc, toc_info, cd_info, requests, cover_art, album_dir,
                    dirs, files, sectors_read >>

\* import_cd lines 105-111: the last line, then Ok(()).
Finish ==
    /\ pc = "finish"
    /\ IF ~connected
       THEN /\ Fail("SendError")
            /\ UNCHANGED msgs
       ELSE /\ msgs' = msgs \o <<Msg("ImportFinished", 0, cd_info.title)>>
            /\ pc' = "done"
            /\ result' = "Ok"
            /\ UNCHANGED error
    /\ UNCHANGED << token_vars, tui_vars, tag_read, tag_store, connected, toc, toc_info, cd_info, requests, cover_art, album_dir,
                    dirs, files, idx, sectors_read, elapsed, inner, expired >>

Next ==
    \/ DropReceiver
    \/ ReadToc
    \/ Lookup
    \/ CoverArt
    \/ CreateAlbumDir
    \/ TrackStart
    \/ ReadSector
    \/ Encode
    \/ Tag
    \/ TrackEnd
    \/ Finish

Spec == Init /\ [][Next]_vars

\* ----------------------------------------------- reading and resolving only
\* Entries of a table of contents with tracks of a second and more.
LongTocEntries ==
    TocEntries \cup { [audio |-> TRUE, first |-> 0,   last |-> 149],
                      [audio |-> TRUE, first |-> 150, last |-> 299],
                      [audio |-> TRUE, first |-> 0,   last |-> 150] }

LongTocs == UNION { [1..n -> LongTocEntries] : n \in 1..MaxTocLen }

ReadInit ==
    /\ toc \in LongTocs
    /\ StartState
    /\ TokenSet
    /\ TuiIdle

\* import_cd up to the return of lookup_cd_info.
ReadNext ==
    \/ DropReceiver
    \/ ReadToc
    \/ Lookup

SpecRead == ReadInit /\ [][ReadNext]_vars

\* ------------------------------------------------------- cancellation
\* A disc with two audio tracks.
TwoTrackToc ==
    << [audio |-> TRUE, first |-> 0, last |-> 0],
       [audio |-> TRUE, first |-> 1, last |-> 1] >>

CancelInit ==
    /\ toc = TwoTrackToc
    /\ StartState
    /\ TokenSet
    /\ TuiIdle

\* A holder of the running token stores false. import_cd is not given the
\* token (its parameters are device, music_dir and tx) and reads it nowhere.
Cancel ==
    /\ running
    /\ pc # "done"
    /\ running' = FALSE
    /\ cancel_idx' = IF pc \in {"rip", "encode", "tag", "track_end"} THEN idx ELSE 0
    /\ UNCHANGED << cd_vars, tui_vars >>

CancelNext ==
    \/ Next
    \/ Cancel

SpecCancel == CancelInit /\ [][CancelNext]_vars

\* ------------------------------------------------------------ long track
\* The sectors of the one track of the disc that is ripped at length.
RipSectors == 200

RipToc == << [audio |-> TRUE, first |-> 0, last |-> RipSectors - 1] >>

RipInit ==
    /\ toc = RipToc
    /\ StartState
    /\ TokenSet
    /\ TuiIdle

SpecRip == RipInit /\ [][Next]_vars

\* ------------------------------------------------------------- run_tui
\* let bar_width = 20;
BAR_WIDTH == 20

\* Most items, files of an album and albums a worker is given.
MaxItems == 2
MaxFiles == 2
MaxAlbums == 2

TotalFiles(n) == Msg("TotalTracks", n, "")
Completed(text) == Msg("TrackCompleted", 0, text)

RECURSIVE Flatten(_)
Flatten(seqs) == IF seqs = <<>> THEN <<>> ELSE Head(seqs) \o Flatten(Tail(seqs))

\* The positions of a flattened script at which the items begin.
RECURSIVE StartsOf(_, _)
StartsOf(items, from) ==
    IF items = <<>> THEN {}
    ELSE (IF Head(items) = <<>> THEN {} ELSE {from + 1})
         \cup StartsOf(Tail(items), from + Len(Head(items)))

\* An operation that works through `items`, each a sequence of lines to
\* send, and then returns `result`; with checks_token it returns Ok(())
\* before an item when the token is false.
WorkerOf(name, items, res, checks_token, initial_total) ==
    [ name          |-> name,
      script        |-> Flatten(items),
      starts        |-> StartsOf(items, 0),
      result        |-> res,
      checks_token  |-> checks_token,
      initial_total |-> initial_total ]

\* The closures of the tests of run_tui.
TestWorkers ==
    { WorkerOf("simple", << <<Info("Test completed")>> >>, "Ok", FALSE, 1),
      WorkerOf("multiple",
               << <<Info("Step 1"), Info("Step 2"), Info("Step 3")>> >>, "Ok", FALSE, 3),
      WorkerOf("total_update",
               << <<TotalFiles(5), Info("Completed")>> >>, "Ok", FALSE, 1),
      WorkerOf("error", << <<Info("Starting")>> >>, "Err", FALSE, 1),
      WorkerOf("cancellation", << <<Info("This should not appear")>> >>, "Ok", FALSE, 10) }

\* The closures of main that send one line per folder, album or track and
\* check the token before each; the work on an item can fail.
LoopWorkers ==
    { WorkerOf("loop", [i \in 1..n |-> <<Info("path")>>], r, TRUE, n) :
        n \in 0..MaxItems, r \in {"Ok", "Err"} }

\* The lines import_cd sends for one track with result r at position i.
TrackLines(r, i) ==
    << Msg("TrackStarted", i, "title") >>
    \o (IF r = "Ok"
        THEN << Info("Successfully read sectors"), Info("Read bytes"),
                Info("Encoded FLAC file") >>
        ELSE << Msg("TrackError", i, "read") >>)
    \o << TerminalMsg(r, i, "title") >>

\* The lines of an import_cd that gets to its last line, the tracks' results
\* being rs.
ImportCdLines(rs) ==
    << Info("Reading CD from device"), Info("Found CD"), Info("Cover art"),
       Info("Created directory"), TotalFiles(Len(rs)) >>
    \o Flatten([i \in 1..Len(rs) |-> TrackLines(rs[i], i)])
    \o << Msg("ImportFinished", 0, "title") >>

ImportCdWorkers ==
    { WorkerOf("import_cd", << ImportCdLines(rs) >>, "Ok", FALSE, 0) :
        rs \in UNION { [1..n -> {"Ok", "ReadError"}] : n \in 0..MaxItems } }

\* The lines process_single_album_sync_tags sends for an album of n audio
\* files in g groups, the groups having a release or not.
SyncAlbumLines(n, g, matched) ==
    << Info("Scanning album folder"), Completed("Scanned"),
       TotalFiles(n), TotalFiles(n + g), Completed("Grouped") >>
    \o Flatten([i \in 1..g |-> << Info("Searching MusicBrainz"), Completed("search") >>])
    \o Flatten([i \in 1..g |->
            << Info("Processing group") >>
            \o (IF matched
                THEN << Info("Found cached release") >>
                     \o [f \in 1..(IF g = 1 THEN n ELSE 1) |-> Completed("file")]
                     \o << Completed("Finished processing") >>
                ELSE << Completed("Skipped") >>) ])
    \o << Info("Successfully synchronized") >>

\* The albums process_single_album_sync_tags is run on: no audio file, or
\* files in one group, or every file in a group of its own.
SyncAlbums ==
    { SyncAlbumLines(0, 0, FALSE) }
    \cup UNION { { SyncAlbumLines(n, g, m) : g \in {1, n}, m \in BOOLEAN } :
                    n \in 1..MaxFiles }

\* The closure of the Sync command: one album after the other, the token
\* checked before each, the total being the number of albums at first.
SyncWorkers ==
    { WorkerOf("sync", albums, "Ok", TRUE, Len(albums)) :
        albums \in UNION { [1..k -> SyncAlbums] : k \in 1..MaxAlbums } }

Workers == TestWorkers \cup LoopWorkers \cup ImportCdWorkers \cup SyncWorkers

\* message.starts_with(...) in the loop of run_tui.
LineClass(m) ==
    IF m.kind = "TotalTracks" THEN "TOTAL_FILES:"
    ELSE IF m.kind = "TrackCompleted" THEN "COMPLETED:"
    ELSE IF m.kind = "SectorProgress" THEN "PROGRESS:"
    ELSE "other"

\* ((progress / 100.0) * bar_width as f64) as usize, for
\* progress = count / total * 100.0, or 100.0 when the total is 0.
CompletedFill(count, total) ==
    IF total > 0 THEN (count * BAR_WIDTH) \div total ELSE BAR_WIDTH

\* The same for the percentage parsed out of a PROGRESS: line (0.0 when it
\* does not parse).
ProgressFill(text) ==
    IF ParsesAsU32(text) THEN (DecimalValue(text) * BAR_WIDTH) \div 100 ELSE 0

\* Mutant: the channel hands out the newest line first.
Enqueue_Front(q, m) == <<m>> \o q

\* tx.send(m) on the unbounded channel.
Enqueue(q, m) == Append(q, m)

\* Mutant: the result of the worker thread is dropped.
JoinResult_Ignored(w) == "Ok"

\* processing_thread.join().unwrap()?
JoinResult(w) == IF w = "Err" THEN "WorkerError" ELSE "Ok"

TuiInit ==
    /\ toc = <<>>
    /\ StartState
    /\ running \in BOOLEAN
    /\ cancel_idx = 0
    /\ worker \in Workers
    /\ wpos = 0
    /\ wstate = "not_spawned"
    /\ chan = <<>>
    /\ tui_pc = "idle"
    /\ received = <<>>
    /\ current_item_count = 0
    /\ total_items = 0
    /\ filled = 0
    /\ tui_result = "running"

\* run_tui ends, by a return or by a panic of its thread; rx is dropped.
TuiEnds(r) ==
    /\ tui_pc' = "done"
    /\ tui_result' = r
    /\ connected' = FALSE

\* run_tui lines 15-24: the channel, the thread, the title line.
TuiSpawn ==
    /\ tui_pc = "idle"
    /\ wstate' = "running"
    /\ total_items' = worker.initial_total
    /\ \E flush_ok \in BOOLEAN :
         IF flush_ok
         THEN tui_pc' = "loop" /\ UNCHANGED <<tui_result, connected>>
         ELSE TuiEnds("IoError")
    /\ UNCHANGED << pc, toc, toc_info, cd_info, requests, cover_art, album_dir, dirs,
                    files, msgs, idx, sectors_read, elapsed, inner, expired, result,
                    error, tag_read, tag_store, token_vars, worker, wpos, chan,
                    received, current_item_count, filled >>

\* One step of the worker thread: the token check before an item, a send,
\* or the return of the operation.
WorkerStep ==
    /\ wstate = "running"
    /\ IF wpos = Len(worker.script)
       THEN wstate' = worker.result /\ UNCHANGED <<wpos, chan>>
       ELSE IF worker.checks_token /\ (wpos + 1) \in worker.starts /\ ~running
       THEN wstate' = "Ok" /\ UNCHANGED <<wpos, chan>>
       ELSE IF connected
       THEN /\ chan' = Enqueue(chan, worker.script[wpos + 1])
            /\ wpos' = wpos + 1
            /\ UNCHANGED wstate
       ELSE wstate' = "Err" /\ UNCHANGED <<wpos, chan>>
    /\ UNCHANGED << cd_vars, token_vars, worker, tui_pc, received, current_item_count,
                    total_items, filled, tui_result >>

\* run_tui lines 26-77: one turn of the loop on a received line.
TuiRecv ==
    /\ tui_pc = "loop"
    /\ chan # <<>>
    /\ LET m   == Head(chan)
           cls == LineClass(m)
           cnt == IF cls = "COMPLETED:" THEN current_item_count + 1
                  ELSE current_item_count
           f   == IF cls = "COMPLETED:" THEN CompletedFill(cnt, total_items)
                  ELSE IF cls = "PROGRESS:" THEN ProgressFill(m.text)
                  ELSE filled
       IN /\ chan' = Tail(chan)
          /\ received' = Append(received, m)
          /\ IF cls = "TOTAL_FILES:"
             THEN /\ total_items' = m.n
                  /\ UNCHANGED <<current_item_count, filled, tui_pc, tui_result, connected>>
             ELSE /\ current_item_count' = cnt
                  /\ filled' = f
                  /\ UNCHANGED total_items
                  /\ IF f > BAR_WIDTH
                     THEN TuiEnds("Panic")
                     ELSE \E flush_ok \in BOOLEAN :
                            IF flush_ok
                            THEN UNCHANGED <<tui_pc, tui_result, connected>>
                            ELSE TuiEnds("IoError")
    /\ UNCHANGED << pc, toc, toc_info, cd_info, requests, cover_art, album_dir, dirs,
                    files, msgs, idx, sectors_read, elapsed, inner, expired, result,
                    error, tag_read, tag_store, token_vars, worker, wpos, wstate >>

\* run_tui lines 26 and 79-100: recv fails once every sender is gone and the
\* channel is empty; then the join, the last progress bar and Ok(()).
TuiJoin ==
    /\ tui_pc = "loop"
    /\ chan = <<>>
    /\ wstate \in {"Ok", "Err"}
    /\ LET f == CompletedFill(current_item_count, total_items)
       IN IF JoinResult(wstate) # "Ok"
          THEN TuiEnds(JoinResult(wstate)) /\ UNCHANGED filled
          ELSE /\ filled' = f
               /\ TuiEnds(IF f > BAR_WIDTH THEN "Panic" ELSE "Ok")
    /\ UNCHANGED << pc, toc, toc_info, cd_info, requests, cover_art, album_dir, dirs,
                    files, msgs, idx, sectors_read, elapsed, inner, expired, result,
                    error, tag_read, tag_store, token_vars, worker, wpos, wstate, chan,
                    received, current_item_count, total_items >>

TuiNext ==
    \/ TuiSpawn
    \/ WorkerStep
    \/ TuiRecv
    \/ TuiJoin

SpecTui == TuiInit /\ [][TuiNext]_vars

\* ------------------------------------------------------------- properties
\* The delivered lines of one kind, in order.
Lines(k) == SelectSeq(msgs, LAMBDA m : m.kind = k)

\* The COMPLETED: and ERROR: lines delivered for position i, in order.
TerminalOf(i) ==
    SelectSeq(msgs, LAMBDA m : m.kind \in {"TrackCompleted", "TrackError"} /\ m.n = i)

\* The index in msgs of the first line of kind k for position i (0 if none).
FirstAt(k, i) ==
    IF \E j \in 1..Len(msgs) : msgs[j].kind = k /\ msgs[j].n = i
    THEN CHOOSE j \in 1..Len(msgs) :
            /\ msgs[j].kind = k /\ msgs[j].n = i
            /\ \A h \in 1..(j - 1) : ~(msgs[h].kind = k /\ msgs[h].n = i)
    ELSE 0

\* The loop over the tracks has been entered or skipped: TOTAL_FILES was sent.
TotalSent == Lines("TotalTracks") # <<>>

\* C1: with the progress receiver connected, every track of the list is
\* started exactly once and in list order, whatever the earlier tracks'
\* outcomes were: the started positions are 1, 2, ... without gap or
\* repetition, the loop never runs ahead of or behind them, and when the
\* loop is over every position 1..n has been started.
C1_AllTracksStartedInOrder ==
    connected =>
        LET st == Lines("TrackStarted")
        IN /\ \A i \in 1..Len(st) :
                st[i].n = i /\ st[i].text = cd_info.tracks[i].title
           /\ pc = "track" => Len(st) = idx - 1
           /\ pc \in {"rip", "encode", "tag", "track_end"} => Len(st) = idx
           /\ (TotalSent /\ pc \in {"finish", "done"}) => Len(st) = Len(cd_info.tracks)

C1_Witness ==
    /\ pc = "done" /\ connected /\ result = "Ok"
    /\ Len(cd_info.tracks) >= 2
    /\ \E j \in 1..Len(msgs) : msgs[j].kind = "TrackError" /\ msgs[j].n = 1
    /\ \E j \in 1..Len(msgs) : msgs[j].kind = "TrackStarted" /\ msgs[j].n = 2

\* C2: with the receiver connected, every position has at most one terminal
\* line (COMPLETED: or ERROR:), every position the loop has left has exactly
\* one, and it comes after that position's "Importing track" line.
C2_OneTerminalLinePerTrack ==
    connected =>
        \A i \in 1..Len(cd_info.tracks) :
            /\ Len(TerminalOf(i)) <= 1
            /\ (TotalSent /\ i < idx) => Len(TerminalOf(i)) = 1
            /\ TerminalOf(i) # <<>> =>
                  /\ FirstAt("TrackStarted", i) > 0
                  /\ \A j \in 1..Len(msgs) :
                        (msgs[j].kind \in {"TrackCompleted", "TrackError"} /\ msgs[j].n = i)
                            => FirstAt("TrackStarted", i) < j

\* C3: with the receiver connected, a track whose 300-second deadline had
\* passed before its rip, encode and tag sequence returned gets exactly one
\* terminal line, an ERROR: line with reason timeout, and no COMPLETED: line.
C3_ExpiredTrackReportsTimeout ==
    (connected /\ expired /\ idx >= 2) =>
        TerminalOf(idx - 1) = <<Msg("TrackError", idx - 1, "timeout")>>

\* The "Successfully imported CD" line was delivered once and is the last line.
FinishedOnceAndLast ==
    /\ Len(Lines("ImportFinished")) = 1
    /\ msgs[Len(msgs)].kind = "ImportFinished"

\* C4 as stated: once import_cd has returned with the receiver connected
\* after a TOC read that gave at least one track, "Successfully imported CD"
\* was delivered exactly once and is the last line.
C4_FinishedAfterTocRead ==
    (pc = "done" /\ connected /\ toc_info.tracks # <<>>) => FinishedOnceAndLast

\* C4 amended: the same, provided the album directory could be created; and
\* the line is never delivered twice nor followed by another line.
C4_FinishedOnceDirCreated ==
    /\ Len(Lines("ImportFinished")) <= 1
    /\ Lines("ImportFinished") # <<>> =>
          pc = "done" /\ msgs[Len(msgs)].kind = "ImportFinished"
    /\ (pc = "done" /\ connected /\ toc_info.tracks # <<>> /\ album_dir \in dirs)
          => FinishedOnceAndLast

C4_Witness ==
    /\ pc = "done" /\ connected
    /\ Len(cd_info.tracks) >= 2
    /\ Len(Lines("TrackError")) >= 2
    /\ Lines("TrackCompleted") = <<>>
    /\ FinishedOnceAndLast

\* C5 as stated: with the receiver connected, import_cd returns Ok whenever
\* read_cd_from_device returned a CdInfo.
C5_OkAfterTocRead ==
    (pc = "done" /\ connected /\ toc_info # NoCdInfo) => result = "Ok"

\* C5 amended: with the receiver connected, import_cd returns Ok whenever it
\* created the album directory, whatever the tracks' outcomes; an error it
\* returns is a device or TOC error, a directory-creation error or a failed
\* send, and the first three are returned before any track is started.
C5_OkOnceDirCreated ==
    pc = "done" =>
        /\ (connected /\ album_dir \in dirs) => result = "Ok"
        /\ result \in {"Ok", "Err"}
        /\ result = "Err" =>
              error \in {"DeviceError", "NoAudioTracks", "IoError", "SendError"}
        /\ (result = "Err" /\ error # "SendError") =>
              idx = 0 /\ Lines("TrackStarted") = <<>>

C5_Witness ==
    /\ pc = "done" /\ result = "Ok"
    /\ \E j \in 1..Len(msgs) : msgs[j] = Msg("TrackError", 1, "encode")
    /\ Lines("TrackCompleted") # <<>>

\* The kinds of line that belong to the work on the tracks.
TrackWorkKinds ==
    {"TotalTracks", "TrackStarted", "TrackCompleted", "TrackError", "ImportFinished"}

\* C6: when the device cannot be read or identified, or the table of contents
\* has no audio entry with a valid sector range, import_cd has returned an
\* error as soon as it is past read_cd_from_device: no directory was created,
\* no file written, no track started, and none of the lines TOTAL_FILES,
\* "Importing track", COMPLETED:, ERROR: or "Successfully imported CD" sent.
C6_FatalBeforeTrackWork ==
    (pc # "start" /\ (TocTracks(toc) = <<>> \/ error = "DeviceError")) =>
        /\ pc = "done" /\ result = "Err"
        /\ dirs = {} /\ files = {} /\ album_dir = None
        /\ idx = 0
        /\ \A j \in 1..Len(msgs) : msgs[j].kind \notin TrackWorkKinds

C6_Witness ==
    /\ pc = "done" /\ result = "Err" /\ error = "NoAudioTracks"
    /\ Len(toc) = MaxTocLen
    /\ \E i \in 1..Len(toc) : toc[i].audio
    /\ msgs # <<>>

\* C7: the count of every TOTAL_FILES line equals the number of entries of
\* the table of contents that survived the filtering of read_cd_from_device.
C7_TotalIsTocTrackCount ==
    \A j \in 1..Len(msgs) :
        msgs[j].kind = "TotalTracks" => msgs[j].n = Len(TocTracks(toc))

\* C8: the CdInfo lookup_cd_info returned has as many tracks as the one it
\* was given, with the same track numbers at the same positions.
C8_LookupKeepsTrackList ==
    cd_info # NoCdInfo =>
        /\ Len(cd_info.tracks) = Len(toc_info.tracks)
        /\ \A i \in 1..Len(cd_info.tracks) :
              i <= Len(toc_info.tracks) =>
                 cd_info.tracks[i].number = toc_info.tracks[i].number

\* C9: whenever the discid request failed or its answer held no release, the
\* next request lookup_cd_info made is the release search.
C9_SearchAfterNoRelease ==
    (requests # <<>> /\ requests[1].answer \in {"err", "no_release"}) =>
        Len(requests) >= 2 /\ requests[2].to = "search"

\* The discid request gave no release and the search, if made, gave none.
Unresolved ==
    /\ requests # <<>>
    /\ requests[1].to = "discid"
    /\ requests[1].answer \in {"err", "no_release"}
    /\ (Len(requests) >= 2 /\ requests[2].to = "search")
          => requests[2].answer \in {"err", "empty"}

\* C10: when no step of the resolution gave a release, lookup_cd_info has
\* returned Ok with the CdInfo it was given: title, artist, tracks and
\* total_duration as read from the disc, and no release_id.
C10_UnresolvedKeepsCdInfo ==
    Unresolved =>
        /\ pc # "lookup"
        /\ cd_info # NoCdInfo
        /\ cd_info = toc_info
        /\ cd_info.title = "Unknown Album" /\ cd_info.artist = "Unknown Artist"
        /\ cd_info.release_id = None

C10_Witness ==
    /\ pc = "done" /\ result = "Ok"
    /\ Len(requests) = 2
    /\ requests[1].answer = "err" /\ requests[2].answer = "empty"
    /\ cd_info = toc_info
    /\ Lines("TrackCompleted") # <<>>

\* C11: every CdInfo the pipeline holds, the one read_cd_from_device returned
\* and the one lookup_cd_info returned (disc-id match, search match or the
\* unchanged input), has total_duration equal to the sum of the durations of
\* its tracks.
C11_TotalIsSumOfDurations ==
    /\ toc_info.total_duration = SumDurations(toc_info.tracks)
    /\ cd_info.total_duration = SumDurations(cd_info.tracks)

C11_Witness ==
    /\ pc = "cover"
    /\ toc_info.total_duration = 3 /\ Len(toc_info.tracks) = 2
    /\ cd_info.release_id = "R1"
    /\ cd_info.total_duration = 4 /\ Len(cd_info.tracks) = 2

\* A file name that ends in ".jpg".
IsJpg(f) == Len(f) >= 4 /\ SubSeq(f, Len(f) - 3, Len(f)) = ".jpg"

\* The cover-art stage of import_cd is over.
CoverStageDone == \E j \in 1..Len(msgs) : msgs[j] = Info("Cover art")

\* The cover-art stage is over and no source gave an image.
NoSourceGaveImage ==
    /\ CoverStageDone
    /\ \A j \in 1..Len(requests) :
          requests[j].to \in {"coverartarchive", "audiodb"} => requests[j].answer = "none"

\* C12: the secondary source is asked only directly after the primary one
\* gave no image, and it is asked whenever the primary gave none; when no
\* source gave an image there is no cover art, import_cd returns no error
\* for it (with the receiver connected and the directory created it returns
\* Ok after starting every track), and no .jpg file is written.
C12_CoverArtFallbackOrder ==
    /\ \A j \in 1..Len(requests) :
          /\ requests[j].to = "audiodb" =>
                /\ j > 1
                /\ requests[j - 1].to = "coverartarchive"
                /\ requests[j - 1].answer = "none"
          /\ (requests[j].to = "coverartarchive" /\ requests[j].answer = "none") =>
                j < Len(requests) /\ requests[j + 1].to = "audiodb"
          /\ (requests[j].to = "coverartarchive" /\ requests[j].answer = "image") =>
                j = Len(requests)
    /\ NoSourceGaveImage =>
          /\ cover_art = None
          /\ \A f \in files : ~IsJpg(f)
          /\ error \in {None, "IoError", "SendError"}
          /\ (pc = "done" /\ connected /\ album_dir \in dirs) =>
                /\ result = "Ok"
                /\ Len(Lines("TrackStarted")) = Len(cd_info.tracks)

C12_Witness ==
    /\ pc = "done" /\ result = "Ok"
    /\ \E j \in 1..Len(requests) :
          requests[j].to = "audiodb" /\ requests[j].answer = "none"
    /\ Lines("TrackCompleted") # <<>>
    /\ files # {}
    /\ \A f \in files : ~IsJpg(f)

\* C13: once the cover-art stage is over for a CdInfo without release id,
\* the artist/album source has been asked for cover art.
C13_CoverArtWithoutReleaseId ==
    (CoverStageDone /\ cd_info.release_id = None) =>
        \E j \in 1..Len(requests) : requests[j].to = "audiodb"

\* The entries of a table of contents that are audio with a valid range.
Kept(t) == { i \in 1..Len(t) : t[i].audio /\ t[i].last >= t[i].first }

\* C14: the track list read_cd_from_device returned has one track per audio
\* entry with a valid sector range, in the order of the table of contents
\* (track k has the sector span of the k-th such entry), and track k has
\* number k.
C14_TracksAreKeptEntriesNumbered ==
    toc_info # NoCdInfo =>
        /\ Len(toc_info.tracks) = Cardinality(Kept(toc))
        /\ \A k \in 1..Len(toc_info.tracks) :
              /\ \E i \in Kept(toc) :
                    /\ Cardinality({h \in Kept(toc) : h <= i}) = k
                    /\ toc_info.tracks[k].duration =
                          (toc[i].last - toc[i].first) \div SECTORS_PER_SECOND
              /\ toc_info.tracks[k].number = k

\* C15: at most one directory is created per import, it exists before the
\* first track is started, and it is Artists/<artist>/<album> with both
\* names passed through sanitize_filename.
C15_AlbumDirSanitizedOnce ==
    /\ Cardinality(dirs) <= 1
    /\ Lines("TrackStarted") # <<>> => dirs # {}
    /\ \A d \in dirs :
          d = "Artists/" \o SanitizeFilename(cd_info.artist)
                \o "/" \o SanitizeFilename(cd_info.title)

\* C16: when set_audio_metadata has returned for a track whose encoded file
\* has a primary tag, the tags saved in that file hold the track's title and
\* artist, the album title and artist, the track number and the release id.
C16_TagsPersisted ==
    (pc = "track_end" /\ tag_read = "tagged") =>
        [ path |-> TrackPath(album_dir, Track.filename),
          tags |-> TagFields(Track, cd_info.title, cd_info.artist,
                             cd_info.release_id) ] \in tag_store

\* C17: when the encoded file of a track could not be read for tagging or
\* has no primary tag, import_cd_track still returns Ok, the track's file is
\* in place, and the line import_cd sends for the track is COMPLETED:.
C17_TagFailureKeepsTrack ==
    tag_read \in {"no_tag", "unreadable"} =>
        /\ pc = "track_end" =>
              /\ inner = "Ok"
              /\ TrackPath(album_dir, Track.filename) \in files
        /\ pc \in {"track", "finish"} =>
              /\ msgs[Len(msgs)] =
                    Msg("TrackCompleted", idx - 1, cd_info.tracks[idx - 1].title)
              /\ Len(TerminalOf(idx - 1)) = 1
              /\ TrackPath(album_dir, cd_info.tracks[idx - 1].filename) \in files

C17_Witness ==
    /\ pc = "finish" /\ connected
    /\ tag_read = "unreadable"
    /\ msgs[Len(msgs)].kind = "TrackCompleted"
    /\ files # {}

\* C18: a step of the sector loop stays in the loop only by reading one more
\* sector (a null read ends it); the loop's end is a failure of the track
\* only if no sector had been read, and otherwise hands the sectors read so
\* far, at least one and possibly fewer than the track has, to the encoder.
C18_PartialReadAccepted ==
    [][ (pc = "rip" /\ connected' = connected) =>
          /\ pc' = "rip" => sectors_read' = sectors_read + 1
          /\ pc' = "encode" =>
                /\ sectors_read' >= 1
                /\ sectors_read' \in {sectors_read, sectors_read + 1}
          /\ inner' = "ReadError" => sectors_read = 0
          /\ (pc' # "rip" /\ connected) =>
                (pc' = "encode" \/ (pc' = "track_end" /\ inner' = "ReadError"))
          /\ idx' = idx /\ files' = files /\ result' = result ]_vars

C18_Witness ==
    /\ pc = "encode"
    /\ sectors_read = 1
    /\ toc[Track.number].last - toc[Track.number].first + 1 = 2

\* C19: every audio file a step writes is
\* Artists/<artist>/<album>/<NN> <title>.flac for the track the loop is at,
\* NN its number in two digits; when a track is reported COMPLETED: its file
\* is at that path; and when the resolution gave no release, the file
\* written is Artists/Unknown Artist/Unknown Album/NN Track NN.flac.
C19_TrackFilePaths ==
    [][ LET PathOf(t) ==
              "Artists/" \o cd_info.artist \o "/" \o cd_info.title \o "/"
                  \o Format02(t.number) \o " " \o SanitizeFilename(t.title) \o ".flac"
        IN /\ \A f \in files' \ files :
                /\ IsJpg(f) \/ f = PathOf(Track)
                /\ Unresolved =>
                      \E n \in 1..Len(toc) :
                          f = "Artists/Unknown Artist/Unknown Album/"
                                \o Format02(n) \o " Track " \o Format02(n) \o ".flac"
           /\ files \subseteq files'
           /\ (Len(msgs') > Len(msgs) /\ msgs'[Len(msgs')].kind = "TrackCompleted") =>
                 /\ msgs'[Len(msgs')].n = idx
                 /\ PathOf(Track) \in files ]_vars

C19_Witness ==
    /\ pc = "done" /\ result = "Ok"
    /\ Unresolved
    /\ "Artists/Unknown Artist/Unknown Album/01 Track 01.flac" \in files
    /\ "Artists/Unknown Artist/Unknown Album/02 Track 02.flac" \in files
    /\ Len(Lines("TrackCompleted")) = 2

\* Two tables of contents with the same track sector boundaries.
SameBoundaries(t1, t2) ==
    /\ Len(t1) = Len(t2)
    /\ \A i \in 1..Len(t1) : t1[i].first = t2[i].first /\ t1[i].last = t2[i].last

Sent == SubSeq(worker.script, 1, wpos)

IsPrefix(a, b) == Len(a) <= Len(b) /\ a = SubSeq(b, 1, Len(a))

\* C21 as stated: the lines are received in the order sent, and run_tui
\* does not return before it has processed every line the worker sent and
\* the worker has finished.
C21_ReturnsAfterEveryMessage ==
    /\ IsPrefix(received, Sent)
    /\ tui_result \in {"Ok", "WorkerError", "IoError"}
         => received = Sent /\ wstate \in {"Ok", "Err"}

\* C21, amended: the lines are received in the order sent, and run_tui
\* returns Ok or the worker's error only after it has processed every line
\* the worker sent and the worker has finished; it ends earlier only on a
\* failed write to stdout or a panic in the progress bar.
C21_InOrderAndCompleteUnlessStdoutFails ==
    /\ IsPrefix(received, Sent)
    /\ tui_result \in {"Ok", "WorkerError"}
         => received = Sent /\ chan = <<>> /\ wstate \in {"Ok", "Err"}

C21_Witness ==
    /\ worker.name = "multiple"
    /\ tui_result = "Ok"
    /\ received = << Info("Step 1"), Info("Step 2"), Info("Step 3") >>

\* C22 as stated: run_tui returns an error when the worker returned an
\* error, and Ok when the worker returned Ok.
C22_ResultIsWorkerResult ==
    tui_pc = "done" =>
        /\ wstate = "Err" => tui_result # "Ok"
        /\ wstate = "Ok" => tui_result = "Ok"

\* C22, amended: when the worker returned an error run_tui does not return
\* Ok, even after lines were sent; when run_tui returns Ok the worker
\* returned Ok; and when the worker returned Ok, run_tui returns Ok or ends
\* on a failed write to stdout or a panic in the progress bar, never with
\* the worker's error.
C22_WorkerErrorPropagates ==
    /\ wstate = "Err" => tui_result # "Ok"
    /\ tui_result = "Ok" => wstate = "Ok"
    /\ tui_result = "WorkerError" => wstate = "Err"
    /\ tui_pc = "done" /\ wstate = "Ok" => tui_result \in {"Ok", "IoError", "Panic"}

C22_Witness ==
    /\ worker.name = "error"
    /\ received = << Info("Starting") >>
    /\ wstate = "Err"
    /\ tui_result = "WorkerError"

\* C27: when the token is already false at the call of run_tui, the body of
\* the worker takes no effect: none of its lines is sent or displayed.
C27_CancelledBeforeStart ==
    ~running => wpos = 0 /\ received = <<>>

\* C28: for the lines of import_cd and of process_single_album_sync_tags,
\* the count of COMPLETED lines never exceeds the current total, and the
\* filled part of the bar never exceeds its width of 20.
C28_ProgressWithinBar ==
    worker.name \in {"import_cd", "sync"} =>
        /\ current_item_count <= total_items
        /\ filled <= BAR_WIDTH
        /\ tui_result # "Panic"


\* ------------------------------------------------- import_cd, continued
\* The steps import_cd can take from one stage to the next.
StageEdges ==
    { <<"start", "lookup">>, <<"lookup", "cover">>, <<"cover", "mkdir">>,
      <<"mkdir", "track">>, <<"mkdir", "finish">>,
      <<"track", "rip">>, <<"track", "track_end">>,
      <<"rip", "encode">>, <<"rip", "track_end">>,
      <<"encode", "tag">>, <<"encode", "track_end">>,
      <<"tag", "track_end">>,
      <<"track_end", "track">>, <<"track_end", "finish">>,
      <<"finish", "done">> }

\* The stages import_cd can return an error from.
FatalStages == {"start", "lookup", "cover", "mkdir", "track_end", "finish"}

\* The lines of the match on a track's result, in order.
OutcomeLines ==
    SelectSeq(msgs, LAMBDA m : \/ m.kind = "TrackCompleted"
                               \/ m.kind = "TrackError" /\ m.text \in {"timeout", "import"})

\* C23: every step of import_cd follows the order read TOC, resolve
\* release, resolve cover art, then per track rip, encode, tag, then
\* finished; a track is started only after TOTAL_FILES was sent exactly once
\* and every earlier track has its outcome line; encoding starts only after
\* the rip read at least one sector, tagging only after the encoder wrote
\* the track's file.
C23_StageOrder ==
    [][ /\ pc' # pc =>
              \/ <<pc, pc'>> \in StageEdges
              \/ pc \in FatalStages /\ pc' = "done" /\ result' = "Err"
        /\ (pc' = "encode" /\ pc # "encode") => pc = "rip" /\ sectors_read' >= 1
        /\ pc' = "tag" => TrackPath(album_dir, Track.filename) \in files'
        /\ (pc = "track" /\ connected) =>
              /\ Len(Lines("TotalTracks")) = 1
              /\ \A j \in 1..Len(msgs) :
                    msgs[j].kind = "TrackStarted" =>
                        \E h \in 1..(j - 1) : msgs[h].kind = "TotalTracks"
              /\ Len(OutcomeLines) = idx - 1
              /\ Len(Lines("TrackStarted")) = idx - 1
        /\ Len(SelectSeq(msgs', LAMBDA m : m.kind = "TotalTracks")) <= 1
      ]_vars

C23_Witness ==
    /\ pc = "done" /\ connected /\ result = "Ok"
    /\ Len(cd_info.tracks) = 2
    /\ Len(Lines("TrackCompleted")) = 2
    /\ Len(OutcomeLines) = 2
    /\ tag_read # None

\* C24: when the token is set to false while the track at position k is
\* being processed, no "Importing track" line is sent for a later position.
C24_NoTrackAfterCancel ==
    (~running /\ cancel_idx > 0 /\ connected) =>
        \A j \in 1..Len(msgs) : msgs[j].kind = "TrackStarted" => msgs[j].n <= cancel_idx

\* C25: the duration read_cd_from_device gives a track is the number of its
\* sectors, last - first + 1, divided by 75: 2 seconds for sectors 0-149
\* and 2 seconds for sectors 150-299.
C25_DurationIsSectorSpan ==
    toc_info # NoCdInfo =>
        \A k \in 1..Len(toc_info.tracks) :
            LET e == toc[toc_info.tracks[k].number]
            IN toc_info.tracks[k].duration =
                   (e.last - e.first + 1) \div SECTORS_PER_SECOND

\* The PROGRESS: lines sent since the last "Importing track" line.
ProgressOfTrack ==
    LET starts == { j \in 1..Len(msgs) : msgs[j].kind = "TrackStarted" }
        from   == CHOOSE j \in starts : \A h \in starts : h <= j
    IN SelectSeq(SubSeq(msgs, from, Len(msgs)), LAMBDA m : m.kind = "SectorProgress")

\* C26: with the receiver connected, while a track of T sectors is read
\* there is one PROGRESS: line for every full hundred of sectors read and no
\* other; the j-th carries floor(100 * 100j / T) percent, which is at most
\* 100 and not below the one before it; and sectors_read is at most T.
C26_ProgressEveryHundredSectors ==
    (connected /\ pc \in {"rip", "encode"}) =>
        LET T == toc[Track.number].last - toc[Track.number].first + 1
            P == ProgressOfTrack
        IN /\ sectors_read <= T
           /\ Len(P) = sectors_read \div PROGRESS_EVERY
           /\ \A j \in 1..Len(P) :
                 /\ P[j].n = Track.number
                 /\ P[j].text = ToString((100 * (PROGRESS_EVERY * j)) \div T)
                 /\ DecimalValue(P[j].text) <= 100
                 /\ j > 1 => DecimalValue(P[j - 1].text) <= DecimalValue(P[j].text)

C26_Witness ==
    /\ connected /\ pc = "encode"
    /\ sectors_read = RipSectors
    /\ Len(ProgressOfTrack) = 2
    /\ DecimalValue(ProgressOfTrack[1].text) < DecimalValue(ProgressOfTrack[2].text)

\* C29: after an import_cd that ran to its end with the receiver connected,
\* the file of the track at position i exists exactly when a COMPLETED: line
\* was sent for position i.
C29_FileIffCompleted ==
    (pc = "done" /\ connected /\ result = "Ok") =>
        \A i \in 1..Len(cd_info.tracks) :
            TrackPath(album_dir, cd_info.tracks[i].filename) \in files
                <=> \E j \in 1..Len(msgs) :
                        msgs[j].kind = "TrackCompleted" /\ msgs[j].n = i

\* C30: in the CdInfo lookup_cd_info returned, no two tracks have the same
\* number and no two have the same filename.
C30_TrackNumbersDistinct ==
    pc \notin {"start", "lookup"} =>
        \A i, j \in 1..Len(cd_info.tracks) :
            i # j => /\ cd_info.tracks[i].number # cd_info.tracks[j].number
                     /\ cd_info.tracks[i].filename # cd_info.tracks[j].filename

====
